---------------------------- MODULE Spec2Model ----------------------------
(***************************************************************************)
(* Bernstein polynomial bijector (bernstein_flow).                         *)
(*                                                                         *)
(* Numbers are exact rationals <<n, d>> in lowest terms with d > 0, plus   *)
(* the IEEE special values NaN = <<0,0>>, +inf = <<1,0>>, -inf = <<-1,0>>. *)
(* Floating point rounding is not modelled; the order of the operations,   *)
(* the branch selection (tf.where) and the special values are.             *)
(***************************************************************************)
EXTENDS Integers, Sequences, FiniteSets, TLC

(***************************************************************************)
(* Bounds of the model.                                                    *)
(***************************************************************************)
\* eps of the working dtype is 1 / EpsInv
EpsInv == 6
\* inputs reach XTail grid steps below 0 and above 1
XTail == 1
\* coefficient vectors have 1 .. MaxLen entries
MaxLen == 3
\* directly supplied coefficients are integers 0 .. MaxTheta
MaxTheta == 1
\* the large-magnitude unconstrained entries are -Big and Big
Big == 4
\* concurrent callers of the spline bijector
NCallers == 2
\* calls each caller makes
MaxCalls == 2

(***************************************************************************)
(* Exact arithmetic with IEEE special values.                              *)
(***************************************************************************)
NaN == <<0, 0>>
PosInf == <<1, 0>>
NegInf == <<-1, 0>>

Abs(i) == IF i < 0 THEN -i ELSE i
Sgn(i) == IF i < 0 THEN -1 ELSE IF i > 0 THEN 1 ELSE 0

RECURSIVE GCD(_, _)
GCD(p, q) == IF q = 0 THEN p ELSE GCD(q, p % q)

\* the rational n / d, d > 0, in lowest terms
R(n, d) == LET g == GCD(Abs(n), d) IN <<n \div g, d \div g>>

IsNaN(v) == v = NaN
IsInf(v) == v[2] = 0 /\ v[1] # 0
IsFinite(v) == v[2] > 0

RNeg(v) == <<-v[1], v[2]>>
RAbs(v) == <<Abs(v[1]), v[2]>>

RAdd(v, w) ==
    IF IsNaN(v) \/ IsNaN(w) THEN NaN
    ELSE IF IsInf(v) /\ IsInf(w) THEN (IF v = w THEN v ELSE NaN)
    ELSE IF IsInf(v) THEN v
    ELSE IF IsInf(w) THEN w
    ELSE LET g == GCD(v[2], w[2])
         IN R(v[1] * (w[2] \div g) + w[1] * (v[2] \div g), v[2] * (w[2] \div g))

RSub(v, w) == RAdd(v, RNeg(w))

RMul(v, w) ==
    IF IsNaN(v) \/ IsNaN(w) THEN NaN
    ELSE IF IsInf(v) \/ IsInf(w)
         THEN (IF v[1] = 0 \/ w[1] = 0 THEN NaN ELSE <<Sgn(v[1]) * Sgn(w[1]), 0>>)
    ELSE LET g1 == GCD(Abs(v[1]), w[2])
             g2 == GCD(Abs(w[1]), v[2])
         IN R((v[1] \div g1) * (w[1] \div g2), (v[2] \div g2) * (w[2] \div g1))

RDiv(v, w) ==
    IF IsNaN(v) \/ IsNaN(w) THEN NaN
    ELSE IF IsInf(w) THEN (IF IsInf(v) THEN NaN ELSE <<0, 1>>)
    ELSE IF IsInf(v) THEN <<Sgn(v[1]) * (IF w[1] < 0 THEN -1 ELSE 1), 0>>
    ELSE IF w[1] = 0 THEN <<Sgn(v[1]), 0>>
    ELSE RMul(v, <<Sgn(w[1]) * w[2], Abs(w[1])>>)

\* IEEE comparisons: every comparison with NaN is false
RLeq(v, w) ==
    IF IsNaN(v) \/ IsNaN(w) THEN FALSE
    ELSE IF IsInf(v) \/ IsInf(w)
         THEN (IF IsInf(v) /\ IsInf(w) THEN v[1] <= w[1]
               ELSE IF IsInf(v) THEN v[1] < 0 ELSE w[1] > 0)
    ELSE LET g == GCD(v[2], w[2])
         IN v[1] * (w[2] \div g) <= w[1] * (v[2] \div g)

RGeq(v, w) == RLeq(w, v)
RLt(v, w) == RLeq(v, w) /\ v # w
RGt(v, w) == RLt(w, v)

RECURSIVE RSum(_)
RSum(s) == IF s = <<>> THEN <<0, 1>> ELSE RAdd(s[1], RSum(Tail(s)))

RECURSIVE Pow(_, _)
Pow(base, e) == IF e = 0 THEN 1 ELSE base * Pow(base, e - 1)

RECURSIVE Fact(_)
Fact(n) == IF n = 0 THEN 1 ELSE n * Fact(n - 1)

\* tf.where on one element
Where(cond, v, w) == IF cond THEN v ELSE w

\* tf.math.log: represented by its argument, log(v) = log(w) iff v = w
Log(v) == <<"log", v>>

One == <<1, 1>>
Zero == <<0, 1>>
Half == <<1, 2>>

(***************************************************************************)
(* math/bernstein.py                                                       *)
(***************************************************************************)
\* tfd.Beta(concentration1, concentration0).prob(y), integer concentrations
BetaProb(c1, c0, y) ==
    IF ~IsFinite(y) THEN NaN
    ELSE LET norm == Fact(c1 + c0 - 1) \div (Fact(c1 - 1) * Fact(c0 - 1))
         IN R(norm * Pow(y[1], c1 - 1) * Pow(y[2] - y[1], c0 - 1),
              Pow(y[2], c1 + c0 - 2))

\* the concentrations of the basis: range(1, order + 1), range(order, 0, -1)
gen_basis(n) == [k \in 1..n |-> <<k, n + 1 - k>>]

\* tf.reduce_sum in the place of tf.reduce_mean
reduce_mean_as_sum(s) == RSum(s)

\* tf.reduce_mean over the last axis: the mean of no element is 0/0
reduce_mean(s) == RDiv(RSum(s), <<Len(s), 1>>)

\* b_poly of gen_bernstein_polynomial(thetas), at y
b_poly(theta, y) ==
    LET n == Len(theta) - 1
        basis == gen_basis(n + 1)
        by == [k \in 1..Len(basis) |-> BetaProb(basis[k][1], basis[k][2], y)]
    IN reduce_mean([k \in 1..Len(theta) |-> RMul(by[k], theta[k])])

bpoly_order(theta) == Len(theta) - 1

\* the differences without the factor order
derive_thetas_unscaled(theta) ==
    [k \in 1..(Len(theta) - 1) |-> RSub(theta[k + 1], theta[k])]

derive_thetas(theta) ==
    LET n == Len(theta) - 1
    IN [k \in 1..(Len(theta) - 1) |->
            RMul(<<n, 1>>, RSub(theta[k + 1], theta[k]))]

\* b_poly_dash of derive_bpoly(thetas), at y
dbpoly(theta, y) == b_poly(derive_thetas(theta), y)

Eps == R(1, EpsInv)

\* [eps, 1 - eps]
get_bounds == <<Eps, RSub(One, Eps)>>

evaluate_bpoly_on_bounds(theta, bnds) ==
    <<b_poly(theta, bnds[1]), b_poly(theta, bnds[2])>>


(***************************************************************************)
(* State.                                                                  *)
(*   bernstein_flow.math.bernstein / bijectors.bernstein:                  *)
(*     thetas          the coefficient vector the closures were built from *)
(*     extrapolation   "linear" (linear extrapolation) or "none"           *)
(*     order, bounds, b, a   what the generator's closures captured        *)
(*     call, arg, ret  the call in progress, its argument and its result   *)
(*     bracket_ok      inverse: the root search's bracket invariant held   *)
(*     extra_inv_ret   inverse: what the tail inverse returned             *)
(*     raised          the error the call signalled, "none" if none        *)
(*   bijectors.bernstein_bijector (spline bijector):                       *)
(*     interp, z_min, z_max   the interpolant cache: 0 = None / unset,     *)
(*                     else the caller whose build assigned it             *)
(*     pc, calls       per caller: position and number of calls started    *)
(*     cache_writes    number of times self.interp was assigned            *)
(*   bijectors.bernstein.BernsteinBijector.__init__:                       *)
(*     self            what the constructor bound: b_poly, extra_inv and   *)
(*                     order, each <<>> while unbound, else <<value>>      *)
(***************************************************************************)
VARIABLES thetas, extrapolation, order, bounds, b, a,
          call, arg, ret, bracket_ok, extra_inv_ret, raised,
          interp, z_min, z_max, pc, calls, cache_writes,
          self

bijector_vars == <<thetas, extrapolation, order, bounds, b, a>>
call_vars == <<call, arg, ret, bracket_ok, extra_inv_ret, raised>>
spline_vars == <<interp, z_min, z_max, pc, calls, cache_writes>>
instance_vars == <<self>>
vars == <<bijector_vars, call_vars, spline_vars, instance_vars>>

(***************************************************************************)
(* gen_linear_extension(thetas): closures over bounds and b                *)
(***************************************************************************)
linear_extension_extra(x) ==
    LET e0 == RAdd(x, b[1])
        e1 == RSub(RAdd(x, b[2]), One)
        y0 == Where(RLeq(x, bounds[1]), e0, NaN)
    IN Where(RGeq(x, bounds[2]), e1, y0)

linear_extension_extra_log_det_jacobian(x) ==
    LET y0 == Where(RLeq(x, bounds[1]), One, NaN)
        y1 == Where(RGeq(x, bounds[2]), One, y0)
    IN Log(RAbs(y1))

linear_extension_extra_inv(y) ==
    LET x0 == RSub(y, b[1])
        x1 == RAdd(RSub(y, b[2]), One)
        x == Where(RLeq(x0, bounds[1]), x0, NaN)
    IN Where(RGeq(x1, bounds[2]), x1, x)

(***************************************************************************)
(* gen_linear_extrapolation(thetas): closures over bounds, b and a         *)
(***************************************************************************)
linear_extrapolation_extra(x) ==
    LET e0 == RAdd(RMul(a[1], x), b[1])
        e1 == RAdd(RMul(a[2], RSub(x, One)), b[2])
        y0 == Where(RLeq(x, bounds[1]), e0, NaN)
    IN Where(RGeq(x, bounds[2]), e1, y0)

linear_extrapolation_extra_log_det_jacobian(x) ==
    LET y0 == Where(RLeq(x, bounds[1]), a[1], NaN)
        y1 == Where(RGeq(x, bounds[2]), a[2], y0)
    IN Log(RAbs(y1))

linear_extrapolation_extra_inv(y) ==
    LET x0 == RDiv(RSub(y, b[1]), a[1])
        x1 == RAdd(RDiv(RSub(y, b[2]), a[2]), One)
        x == Where(RLeq(x0, bounds[1]), x0, NaN)
    IN Where(RGeq(x1, bounds[2]), x1, x)

\* the closures gen_extrapolation_fn(theta) returned
extra(x) ==
    IF extrapolation = "linear" THEN linear_extrapolation_extra(x)
    ELSE linear_extension_extra(x)

extra_log_det_jacobian(x) ==
    IF extrapolation = "linear" THEN linear_extrapolation_extra_log_det_jacobian(x)
    ELSE linear_extension_extra_log_det_jacobian(x)

extra_inv(y) ==
    IF extrapolation = "linear" THEN linear_extrapolation_extra_inv(y)
    ELSE linear_extension_extra_inv(y)

(***************************************************************************)
(* gen_bernstein_polynomial_with_extrapolation(theta, gen_extrapolation_fn)*)
(***************************************************************************)
\* (x <= bounds[0]) | (x >= bounds[1])
x_safe(x) == RLeq(x, bounds[1]) \/ RGeq(x, bounds[2])

\* x itself in the place of tf.where(x_safe, 0.5, x)
x_unguarded(x) == x

\* tf.where(x_safe, 0.5, x): the point the polynomial branch is evaluated at
x_or_half(x) == Where(x_safe(x), Half, x)

bpoly_extra(x) ==
    LET y == b_poly(thetas, x_or_half(x))
    IN Where(x_safe(x), extra(x), y)

bpoly_log_det_jacobian_extra(x) ==
    LET y == Log(RAbs(dbpoly(thetas, x_or_half(x))))
    IN Where(x_safe(x), extra_log_det_jacobian(x), y)


(***************************************************************************)
(* bijectors/bernstein.py: BernsteinBijector                               *)
(***************************************************************************)
\* grid of the inputs: half an eps
GridDen == 2 * EpsInv
X == {R(k, GridDen) : k \in (0 - XTail)..(GridDen + XTail)}
Grid01 == {R(k, GridDen) : k \in 0..GridDen}

\* tf.clip_by_value(x, 0.0, 1.0)
domain_constraint_fn(x) ==
    IF RLt(x, Zero) THEN Zero ELSE IF RGt(x, One) THEN One ELSE x

\* the wrapped function on the grid of [0, 1], as the root search sees it:
\* fn(domain_constraint_fn(ux)) at ux = k / GridDen
fn_on_grid == [k \in 0..GridDen |-> bpoly_extra(domain_constraint_fn(R(k, GridDen)))]

\* the objective ScalarFunctionWithInferredInverse hands to the root search
objective_fn(fn, z) == [k \in DOMAIN fn |-> RSub(fn[k], z)]

RSgn(v) == IF IsNaN(v) THEN 2 ELSE Sgn(v[1])

\* f(low) and f(high) have opposite signs or one of them is zero
BracketOk(f) ==
    LET f_low == RSgn(f[0])
        f_high == RSgn(f[GridDen])
    IN f_low # 2 /\ f_high # 2 /\ f_low * f_high <= 0

\* the estimated roots find_root_chandrupatla can return on [0, 1] for the
\* objective f: within one grid step of a sign change of f; any point of
\* the bracket when the bracket invariant is violated
root_search_fn(f) ==
    IF ~BracketOk(f) THEN Grid01
    ELSE {R(k, GridDen) : k \in {j \in 0..GridDen :
            \/ RSgn(f[j]) = 0
            \/ j < GridDen /\ RSgn(f[j]) * RSgn(f[j + 1]) = -1
            \/ j > 0 /\ RSgn(f[j]) * RSgn(f[j - 1]) = -1}}

\* > in the place of >=
is_increasing_strict(theta) ==
    \A k \in 1..(Len(theta) - 1) : RGt(theta[k + 1], theta[k])

\* thetas[..., 1:] >= thetas[..., :-1], reduced with all
is_increasing_of(theta) ==
    \A k \in 1..(Len(theta) - 1) : RGeq(theta[k + 1], theta[k])

(***************************************************************************)
(* bijectors/bernstein_bijector.py: constrain_theta                        *)
(***************************************************************************)
\* tf.math.softplus, log(1 + exp(h)), to three binary places; beyond
\* |h| = 2 it is h or 0 at this precision
softplus(h) ==
    IF h >= 3 THEN R(h, 1)
    ELSE IF h = 2 THEN R(17, 8)
    ELSE IF h = 1 THEN R(11, 8)
    ELSE IF h = 0 THEN R(6, 8)
    ELSE IF h = -1 THEN R(3, 8)
    ELSE IF h = -2 THEN R(1, 8)
    ELSE Zero

RECURSIVE cumsum(_)
cumsum(s) ==
    IF s = <<>> THEN <<>>
    ELSE LET init == cumsum(SubSeq(s, 1, Len(s) - 1))
         IN Append(init, IF init = <<>> THEN s[Len(s)]
                         ELSE RAdd(init[Len(init)], s[Len(s)]))

\* the increments without fn
constrain_theta_without_fn(theta_unconstrained) ==
    LET h == theta_unconstrained
        d == <<Zero>> \o [k \in 1..Len(h) |-> R(h[k], 1)]
    IN cumsum(SubSeq(d, 2, Len(d)))

constrain_theta(theta_unconstrained) ==
    LET h == theta_unconstrained
        d == <<Zero>> \o <<R(h[1], 1)>> \o [k \in 1..(Len(h) - 1) |-> softplus(h[k + 1])]
    IN cumsum(SubSeq(d, 2, Len(d)))

(***************************************************************************)
(* What the generators return, as the constructor receives it. A closure   *)
(* is named by its name and the policy generator it was built with.        *)
(***************************************************************************)
\* return bpoly_extra, bpoly_log_det_jacobian_extra, extra_inv, order
gen_bernstein_polynomial_with_extrapolation(theta, gen_extrapolation_fn) ==
    << <<"bpoly_extra", gen_extrapolation_fn>>,
       <<"bpoly_log_det_jacobian_extra", gen_extrapolation_fn>>,
       <<"extra_inv", gen_extrapolation_fn>>,
       bpoly_order(theta) >>

gen_bernstein_polynomial_with_linear_extension(theta) ==
    gen_bernstein_polynomial_with_extrapolation(theta, "gen_linear_extension")

gen_bernstein_polynomial_with_linear_extrapolation(theta) ==
    gen_bernstein_polynomial_with_extrapolation(theta, "gen_linear_extrapolation")

\* no field of the instance is bound
Unbound == [b_poly |-> <<>>, extra_inv |-> <<>>, order |-> <<>>]

(***************************************************************************)
(* Inputs.                                                                 *)
(***************************************************************************)
SeqsUpTo(S, n) == UNION {[1..m -> S] : m \in 1..n}

\* the coefficient vector of the concrete scenario: 0.0, 0.5, 1.5, 2.0
ScenarioTheta == <<R(0, 1), R(1, 2), R(3, 2), R(2, 1)>>

UnconstrainedInputs == SeqsUpTo({0 - Big, 0, Big}, MaxLen)

\* coefficient vectors supplied directly, or made by constrain_theta
ThetaInputs ==
    SeqsUpTo({R(k, 1) : k \in 0..MaxTheta}, MaxLen)
        \cup {ScenarioTheta}
        \cup {constrain_theta(h) : h \in UnconstrainedInputs}

Extrapolations == {"linear", "none"}

\* the extrapolation argument of the constructor: "linear", None, any other
CtorExtrapolations == Extrapolations \cup {"other"}

\* targets of inverse: what forward produced, and a grid of other values
Targets ==
    {y \in {bpoly_extra(x) : x \in X} : IsFinite(y)}
        \cup {R(k, 2) : k \in (0 - XTail)..(2 * MaxTheta + XTail)}

(***************************************************************************)
(* Initial state: the closures generated from one coefficient vector,      *)
(* gen_bernstein_polynomial_with_extrapolation(theta, gen_extrapolation_fn)*)
(***************************************************************************)
NoCall ==
    /\ call = "none"
    /\ arg = NaN
    /\ ret = NaN
    /\ bracket_ok = TRUE
    /\ extra_inv_ret = NaN
    /\ raised = "none"

Init ==
    /\ \E theta \in ThetaInputs, e \in Extrapolations :
          /\ thetas = theta
          /\ extrapolation = e
          /\ order = bpoly_order(theta)
          /\ bounds = get_bounds
          /\ b = evaluate_bpoly_on_bounds(theta, get_bounds)
          /\ a = IF e = "linear"
                 THEN evaluate_bpoly_on_bounds(derive_thetas(theta), get_bounds)
                 ELSE <<>>
    /\ NoCall
    /\ interp = 0 /\ z_min = 0 /\ z_max = 0
    /\ pc = [c \in 1..NCallers |-> "idle"]
    /\ calls = [c \in 1..NCallers |-> 0]
    /\ cache_writes = 0
    /\ self = Unbound

(***************************************************************************)
(* Operations. A caller makes one call at a time and takes its result.     *)
(***************************************************************************)
Forward ==
    /\ call = "none"
    /\ \E x \in X :
          /\ arg' = x
          /\ ret' = bpoly_extra(x)
    /\ call' = "forward"
    /\ UNCHANGED <<bracket_ok, extra_inv_ret, raised>>
    /\ UNCHANGED <<bijector_vars, spline_vars, instance_vars>>

ForwardLogDetJacobian ==
    /\ call = "none"
    /\ \E x \in X :
          /\ arg' = x
          /\ ret' = bpoly_log_det_jacobian_extra(x)
    /\ call' = "forward_log_det_jacobian"
    /\ UNCHANGED <<bracket_ok, extra_inv_ret, raised>>
    /\ UNCHANGED <<bijector_vars, spline_vars, instance_vars>>

\* inverse(y): the inferred inverse, then the tail inverse where it is defined
Inverse ==
    /\ call = "none"
    /\ LET fn == fn_on_grid
       IN \E y \in Targets :
            LET tail_inv == extra_inv(y)
            IN /\ arg' = y
               /\ bracket_ok' = BracketOk(objective_fn(fn, y))
               /\ extra_inv_ret' = tail_inv
               /\ \E x \in root_search_fn(objective_fn(fn, y)) :
                     ret' = Where(IsNaN(tail_inv), domain_constraint_fn(x), tail_inv)
    /\ call' = "inverse"
    /\ UNCHANGED raised
    /\ UNCHANGED <<bijector_vars, spline_vars, instance_vars>>

IsIncreasing ==
    /\ call = "none"
    /\ call' = "is_increasing"
    /\ ret' = is_increasing_of(thetas)
    /\ UNCHANGED <<arg, bracket_ok, extra_inv_ret, raised>>
    /\ UNCHANGED <<bijector_vars, spline_vars, instance_vars>>

ConstrainTheta ==
    /\ call = "none"
    /\ \E h \in UnconstrainedInputs :
          /\ arg' = h
          /\ ret' = constrain_theta(h)
    /\ call' = "constrain_theta"
    /\ UNCHANGED <<bracket_ok, extra_inv_ret, raised>>
    /\ UNCHANGED <<bijector_vars, spline_vars, instance_vars>>

\* the caller has taken the result
Return ==
    /\ call # "none"
    /\ call' = "none" /\ arg' = NaN /\ ret' = NaN
    /\ bracket_ok' = TRUE /\ extra_inv_ret' = NaN /\ raised' = "none"
    /\ UNCHANGED <<bijector_vars, spline_vars, instance_vars>>

Next ==
    \/ Forward
    \/ ForwardLogDetJacobian
    \/ Inverse
    \/ IsIncreasing
    \/ ConstrainTheta
    \/ Return

Spec == Init /\ [][Next]_vars


(***************************************************************************)
(* bijectors/bernstein_bijector.py: the spline bijector under concurrent   *)
(* callers. Each caller runs _inverse, _forward or                         *)
(* _forward_log_det_jacobian on the one instance; a step is one statement  *)
(* that reads or writes the instance.                                      *)
(***************************************************************************)
Callers == 1..NCallers

InitSpline ==
    /\ thetas = ScenarioTheta
    /\ extrapolation = "none"
    /\ order = bpoly_order(ScenarioTheta)
    /\ bounds = get_bounds
    /\ b = evaluate_bpoly_on_bounds(ScenarioTheta, get_bounds)
    /\ a = <<>>
    /\ NoCall
    /\ interp = 0 /\ z_min = 0 /\ z_max = 0
    /\ pc = [c \in Callers |-> "idle"]
    /\ calls = [c \in Callers |-> 0]
    /\ cache_writes = 0
    /\ self = Unbound

\* _inverse(z) is entered
SplineInverseBegin(c) ==
    /\ pc[c] = "idle" /\ calls[c] < MaxCalls
    /\ pc' = [pc EXCEPT ![c] = "check"]
    /\ calls' = [calls EXCEPT ![c] = @ + 1]
    /\ UNCHANGED <<interp, z_min, z_max, cache_writes>>
    /\ UNCHANGED <<bijector_vars, call_vars, instance_vars>>

\* if self.interp is None: self.gen_inverse_interpolation()
SplineCheck(c) ==
    /\ pc[c] = "check"
    /\ pc' = [pc EXCEPT ![c] = IF interp = 0 THEN "fit" ELSE "eval"]
    /\ UNCHANGED <<interp, z_min, z_max, calls, cache_writes>>
    /\ UNCHANGED <<bijector_vars, call_vars, instance_vars>>

\* z_fit = self.forward(y_fit)
SplineFit(c) ==
    /\ pc[c] = "fit"
    /\ pc' = [pc EXCEPT ![c] = "set_z_min"]
    /\ UNCHANGED <<interp, z_min, z_max, calls, cache_writes>>
    /\ UNCHANGED <<bijector_vars, call_vars, instance_vars>>

\* self.z_min = np.min(z_fit, axis=0).reshape(-1, 1)
SplineSetZMin(c) ==
    /\ pc[c] = "set_z_min"
    /\ z_min' = c
    /\ pc' = [pc EXCEPT ![c] = "set_z_max"]
    /\ UNCHANGED <<interp, z_max, calls, cache_writes>>
    /\ UNCHANGED <<bijector_vars, call_vars, instance_vars>>

\* self.z_max = np.max(z_fit, axis=0).reshape(-1, 1)
SplineSetZMax(c) ==
    /\ pc[c] = "set_z_max"
    /\ z_max' = c
    /\ pc' = [pc EXCEPT ![c] = "set_interp"]
    /\ UNCHANGED <<interp, z_min, calls, cache_writes>>
    /\ UNCHANGED <<bijector_vars, call_vars, instance_vars>>

\* self.interp = ifn
SplineSetInterp(c) ==
    /\ pc[c] = "set_interp"
    /\ interp' = c
    /\ cache_writes' = cache_writes + 1
    /\ pc' = [pc EXCEPT ![c] = "eval"]
    /\ UNCHANGED <<z_min, z_max, calls>>
    /\ UNCHANGED <<bijector_vars, call_vars, instance_vars>>

\* y = reshape_out(self.interp(z))
SplineEval(c) ==
    /\ pc[c] = "eval"
    /\ interp # 0
    /\ pc' = [pc EXCEPT ![c] = "idle"]
    /\ UNCHANGED <<interp, z_min, z_max, calls, cache_writes>>
    /\ UNCHANGED <<bijector_vars, call_vars, instance_vars>>

\* _forward(y): reads self.theta and the basis only
SplineForward(c) ==
    /\ pc[c] = "idle" /\ calls[c] < MaxCalls
    /\ calls' = [calls EXCEPT ![c] = @ + 1]
    /\ UNCHANGED <<interp, z_min, z_max, pc, cache_writes>>
    /\ UNCHANGED <<bijector_vars, call_vars, instance_vars>>

\* _forward_log_det_jacobian(y): reads self.theta and the basis only
SplineForwardLogDetJacobian(c) ==
    /\ pc[c] = "idle" /\ calls[c] < MaxCalls
    /\ calls' = [calls EXCEPT ![c] = @ + 1]
    /\ UNCHANGED <<interp, z_min, z_max, pc, cache_writes>>
    /\ UNCHANGED <<bijector_vars, call_vars, instance_vars>>

NextSpline ==
    \E c \in Callers :
        \/ SplineInverseBegin(c)
        \/ SplineCheck(c)
        \/ SplineFit(c)
        \/ SplineSetZMin(c)
        \/ SplineSetZMax(c)
        \/ SplineSetInterp(c)
        \/ SplineEval(c)
        \/ SplineForward(c)
        \/ SplineForwardLogDetJacobian(c)

SpecSpline == InitSpline /\ [][NextSpline]_vars


(***************************************************************************)
(* bijectors/bernstein.py: BernsteinBijector.__init__(thetas,              *)
(* extrapolation). One instance is constructed; the caller then takes the  *)
(* outcome.                                                                *)
(***************************************************************************)
InitConstruct ==
    /\ thetas = <<>>
    /\ extrapolation = "none"
    /\ order = bpoly_order(<<>>)
    /\ bounds = <<>> /\ b = <<>> /\ a = <<>>
    /\ NoCall
    /\ interp = 0 /\ z_min = 0 /\ z_max = 0
    /\ pc = [c \in Callers |-> "idle"]
    /\ calls = [c \in Callers |-> 0]
    /\ cache_writes = 0
    /\ self = Unbound

\* self.thetas is assigned, the generator of the policy runs and builds its
\* closures, and what it returns is unpacked into three targets: a tuple
\* assignment binds its targets only when the lengths agree and raises
\* ValueError otherwise
Construct ==
    /\ call = "none"
    /\ thetas = <<>>
    /\ \E theta \in ThetaInputs, e \in CtorExtrapolations :
          LET generated == IF e = "linear"
                           THEN gen_bernstein_polynomial_with_linear_extrapolation(theta)
                           ELSE gen_bernstein_polynomial_with_linear_extension(theta)
          IN /\ thetas' = theta
             /\ extrapolation' = e
             /\ order' = bpoly_order(theta)
             /\ bounds' = get_bounds
             /\ b' = evaluate_bpoly_on_bounds(theta, get_bounds)
             /\ a' = IF e = "linear"
                      THEN evaluate_bpoly_on_bounds(derive_thetas(theta), get_bounds)
                      ELSE <<>>
             /\ arg' = <<theta, e>>
             /\ IF Len(generated) = 3
                THEN /\ self' = [b_poly |-> <<generated[1]>>,
                                  extra_inv |-> <<generated[2]>>,
                                  order |-> <<generated[3]>>]
                     /\ raised' = "none"
                ELSE /\ self' = self
                     /\ raised' = "ValueError"
    /\ call' = "__init__"
    /\ UNCHANGED <<ret, bracket_ok, extra_inv_ret>>
    /\ UNCHANGED spline_vars

NextConstruct ==
    \/ Construct
    \/ Return

SpecConstruct == InitConstruct /\ [][NextConstruct]_vars


(***************************************************************************)
(* Reference definitions used by the properties.                           *)
(***************************************************************************)
RECURSIVE Binom(_, _)
Binom(n, k) ==
    IF k = 0 \/ k = n THEN 1 ELSE Binom(n - 1, k - 1) + Binom(n - 1, k)

\* sum_k C(n, k) y^k (1 - y)^(n - k) theta_k, n = Len(theta) - 1
BernsteinSum(theta, y) ==
    LET n == Len(theta) - 1
    IN RSum([j \in 1..Len(theta) |->
                RMul(R(Binom(n, j - 1) * Pow(y[1], j - 1) * Pow(y[2] - y[1], n - j + 1),
                       Pow(y[2], n)),
                     theta[j])])

\* theta_{k+1} - theta_k
Differences(theta) == [k \in 1..(Len(theta) - 1) |-> RSub(theta[k + 1], theta[k])]

\* sorted: no entry is smaller than an earlier one
NonDecreasing(theta) ==
    \A i, j \in 1..Len(theta) : i <= j => RLeq(theta[i], theta[j])

StrictlyInside(x) == RGt(x, Eps) /\ RLt(x, RSub(One, Eps))
InLowerTail(x) == RLeq(x, Eps)
InUpperTail(x) == RGeq(x, RSub(One, Eps))

(***************************************************************************)
(* C6: inside (eps, 1 - eps) forward(y) is the Bernstein polynomial        *)
(* sum_k C(order, k) y^k (1 - y)^(order - k) theta_k, and for              *)
(* theta = [0.0, 0.5, 1.5, 2.0] forward(0.5) is 1.0.                       *)
(***************************************************************************)
C6_ForwardIsBernsteinPolynomial ==
    (call = "forward" /\ StrictlyInside(arg)) =>
        /\ ret = BernsteinSum(thetas, arg)
        /\ (thetas = ScenarioTheta /\ arg = Half) => ret = One

C6_Witness ==
    call = "forward" /\ thetas = ScenarioTheta /\ arg = Half /\ ret = One

(***************************************************************************)
(* C7: for a polynomial of order >= 1, forward_log_det_jacobian(x) is the  *)
(* log of the absolute slope of the extended forward function: inside      *)
(* (eps, 1 - eps) log|order * Q(x)|, Q the Bernstein polynomial of the     *)
(* differences of theta; in the tails log 1 = 0 under linear extension and *)
(* log|order * Q(boundary)| under linear extrapolation, which is the slope *)
(* forward has between neighbouring tail points.                           *)
(***************************************************************************)
SlopeAt(x) == RMul(R(order, 1), BernsteinSum(Differences(thetas), x))

TailSlope(x) ==
    IF extrapolation = "linear"
    THEN (IF InLowerTail(x) THEN SlopeAt(Eps) ELSE SlopeAt(RSub(One, Eps)))
    ELSE One

C7_LogDetJacobianIsLogSlope ==
    (call = "forward_log_det_jacobian" /\ order >= 1) =>
        /\ StrictlyInside(arg) => ret = Log(RAbs(SlopeAt(arg)))
        /\ ~StrictlyInside(arg) =>
              /\ ret = Log(RAbs(TailSlope(arg)))
              /\ \A x \in X :
                    (InLowerTail(x) <=> InLowerTail(arg)) /\ ~StrictlyInside(x) =>
                        RSub(bpoly_extra(x), bpoly_extra(arg))
                            = RMul(TailSlope(arg), RSub(x, arg))
              /\ extrapolation # "linear" => ret = Log(One)

C7_Witness ==
    /\ call = "forward_log_det_jacobian" /\ order = 2 /\ extrapolation = "linear"
    /\ InUpperTail(arg) /\ thetas = <<R(0, 1), R(0, 1), R(1, 1)>>
    /\ arg = One /\ ret = Log(R(2 * (EpsInv - 1), EpsInv))

C5_IsIncreasingIffNonDecreasing ==
    call = "is_increasing" =>
        /\ ret <=> NonDecreasing(thetas)
        /\ (\E h \in UnconstrainedInputs : thetas = constrain_theta(h)) => ret
        /\ (\E k \in 1..(Len(thetas) - 1) : RLt(thetas[k + 1], thetas[k])) => ~ret

C5_Witness ==
    /\ call = "is_increasing" /\ ret = TRUE
    /\ thetas = constrain_theta(<<0, 0 - Big, 0>>)

C5_WitnessDecreasing ==
    /\ call = "is_increasing" /\ ret = FALSE
    /\ thetas = <<R(0, 1), R(1, 1), R(0, 1)>>


(***************************************************************************)
(* C2: for non-decreasing theta the extended forward function is           *)
(* non-decreasing over the whole real line, also across the boundaries.    *)
(* Stated for order >= 1.                                                  *)
(***************************************************************************)
C2_ForwardNonDecreasing ==
    (call = "forward" /\ order >= 1 /\ NonDecreasing(thetas)) =>
        \A x2 \in X : RLeq(arg, x2) => RLeq(ret, bpoly_extra(x2))

(***************************************************************************)
(* C3: both policies are C1-continuous with the polynomial at both         *)
(* boundaries: the tail at eps (at 1 - eps) has the polynomial's value and *)
(* the polynomial's slope there. Stated for order >= 1.                    *)
(***************************************************************************)
GridStep == R(1, GridDen)

\* the slope of the tail formula that covers the boundary x
MeasuredTailSlope(x) ==
    IF InLowerTail(x)
    THEN RDiv(RSub(extra(x), extra(RSub(x, GridStep))), GridStep)
    ELSE RDiv(RSub(extra(RAdd(x, GridStep)), extra(x)), GridStep)

C3_TailsC1Continuous ==
    (call = "forward" /\ order >= 1 /\ arg \in {Eps, RSub(One, Eps)}) =>
        /\ ret = b_poly(thetas, arg)
        /\ MeasuredTailSlope(arg) = dbpoly(thetas, arg)

(***************************************************************************)
(* C1: for non-decreasing theta and every x, inverse(forward(x)) is x      *)
(* within the tolerance of the root search. Stated for order >= 1 and      *)
(* theta_0 < theta_order, where the polynomial is strictly increasing. The *)
(* tolerance is one and a half eps, three steps of the grid the root       *)
(* search resolves: larger than eps, as 1e-5 is larger than the eps of     *)
(* float32, and smaller than the width of the domain.                      *)
(***************************************************************************)
Tolerance == RMul(R(3, 2), Eps)

C1_InverseOfForward ==
    (call = "inverse" /\ order >= 1 /\ NonDecreasing(thetas)
        /\ RLt(thetas[1], thetas[Len(thetas)])) =>
        \A x \in X :
            bpoly_extra(x) = arg =>
                /\ IsFinite(ret)
                /\ RLeq(RAbs(RSub(ret, x)), Tolerance)

(***************************************************************************)
(* C8: an inverse call whose root-search bracket on [0, 1] is violated     *)
(* signals an InputDomainError instead of returning. Stated for            *)
(* non-decreasing theta of order >= 1.                                     *)
(***************************************************************************)
C8_BracketViolationSignalled ==
    (call = "inverse" /\ ~bracket_ok /\ order >= 1 /\ NonDecreasing(thetas)) =>
        raised = "InputDomainError"

(***************************************************************************)
(* C9: the tail inverse is undefined exactly for targets strictly inside   *)
(* the output range of the polynomial branch, and inverse returns the      *)
(* closed form whenever it is defined. Stated for non-decreasing,          *)
(* non-constant theta, whose polynomial branch has the output range        *)
(* (P(eps), P(1 - eps)).                                                   *)
(***************************************************************************)
C9_TailInverseDefinedOutsidePolynomialRange ==
    (call = "inverse" /\ order >= 1 /\ NonDecreasing(thetas) /\ RLt(b[1], b[2])) =>
        /\ IsNaN(extra_inv_ret) <=> (RGt(arg, b[1]) /\ RLt(arg, b[2]))
        /\ ~IsNaN(extra_inv_ret) => ret = extra_inv_ret


(***************************************************************************)
(* C10: on one spline bijector, over any interleaving of concurrent        *)
(* inverse calls, the interpolant cache is built and written at most once. *)
(* cache_writes counts the assignments of self.interp; the forward and     *)
(* forward_log_det_jacobian steps leave it unchanged.                      *)
(***************************************************************************)
C10_CacheWrittenAtMostOnce == cache_writes <= 1


(***************************************************************************)
(* C11: for finite x and a finite coefficient vector of length >= 2,       *)
(* forward(x) and forward_log_det_jacobian(x) are never the undefined      *)
(* marker: the tail functions return the marker exactly for                *)
(* eps < x < 1 - eps, which is exactly where the polynomial branch is      *)
(* selected, and the polynomial branch is evaluated only strictly inside   *)
(* (eps, 1 - eps) or at the substitute 0.5.                                *)
(***************************************************************************)
\* the undefined marker as a log det Jacobian: the log of the marker
IsUndefinedLog(v) == v = Log(NaN)

C11_ForwardNeverUndefined ==
    (/\ call \in {"forward", "forward_log_det_jacobian"}
     /\ Len(thetas) >= 2)
        => /\ call = "forward" => ~IsNaN(ret)
           /\ call = "forward_log_det_jacobian" => ~IsUndefinedLog(ret)
           /\ IsNaN(extra(arg)) <=> StrictlyInside(arg)
           /\ IsUndefinedLog(extra_log_det_jacobian(arg)) <=> StrictlyInside(arg)
           /\ ~x_safe(arg) <=> StrictlyInside(arg)
           /\ StrictlyInside(x_or_half(arg)) \/ x_or_half(arg) = Half

\* a log det Jacobian taken in the lower tail of a linear extrapolation, at
\* the boundary itself, where the discarded polynomial branch ran at 0.5
C11_Witness ==
    /\ call = "forward_log_det_jacobian"
    /\ Len(thetas) >= 2
    /\ extrapolation = "linear"
    /\ arg = Eps
    /\ x_or_half(arg) = Half
    /\ ~IsUndefinedLog(ret)

\* a forward value taken by the polynomial branch
C11_WitnessInside ==
    /\ call = "forward"
    /\ Len(thetas) >= 2
    /\ StrictlyInside(arg)
    /\ IsNaN(extra(arg))
    /\ IsFinite(ret)


(***************************************************************************)
(* C12: for a coefficient vector of length 1 (order 0) the derivative      *)
(* function built from theta returns a defined constant at every input,    *)
(* not the undefined marker.                                               *)
(***************************************************************************)
C12_OrderZeroDerivativeDefined ==
    (/\ call = "forward_log_det_jacobian"
     /\ order = 0)
        => /\ IsFinite(dbpoly(thetas, arg))
           /\ \A x \in X : dbpoly(thetas, x) = dbpoly(thetas, arg)
           /\ StrictlyInside(arg) => ~IsUndefinedLog(ret)


(***************************************************************************)
(* C13: constructing a BernsteinBijector from a coefficient vector of      *)
(* length >= 2 with either extrapolation setting completes without error   *)
(* and leaves the instance with order = len(theta) - 1, the extended       *)
(* forward function and the tail inverse of the selected policy: linear    *)
(* extrapolation when extrapolation == "linear", linear extension for      *)
(* every other value.                                                      *)
(***************************************************************************)
SelectedPolicy ==
    IF extrapolation = "linear" THEN "gen_linear_extrapolation"
    ELSE "gen_linear_extension"

C13_ConstructionBindsFields ==
    (/\ call = "__init__"
     /\ Len(thetas) >= 2)
        => /\ raised = "none"
           /\ self.order = <<Len(thetas) - 1>>
           /\ self.b_poly = << <<"bpoly_extra", SelectedPolicy>> >>
           /\ self.extra_inv = << <<"extra_inv", SelectedPolicy>> >>

=============================================================================
